---- MODULE Spec2Model ----
(***************************************************************************)
(* A model of nodriver/core/connection.py: the Connection object (its      *)
(* websocket, listener task, pending-request table, id counter, handler    *)
(* registry and enabled domains), the Transaction future, and the          *)
(* coroutines connect, disconnect, send, _register_handlers and _listener  *)
(* run by one cooperative (asyncio) scheduler.                             *)
(*                                                                         *)
(* Every coroutine is a stack of frames.  A task keeps the scheduler       *)
(* (running = task) from the moment it is resumed until it reaches an      *)
(* await that really suspends; only then may another task be resumed.      *)
(* add_handler and remove_handler are plain functions that threads call:   *)
(* a step of theirs is one block under the registry lock.                  *)
(***************************************************************************)
EXTENDS Integers, Sequences, FiniteSets, TLC

\* ------------------------------------------------------------- bounds
NCallers == 2        \* tasks that call connect / send / disconnect
MaxOps == 3          \* what the environment does, in total: calls started by
                     \* the callers, frames with an unknown id, and
                     \* closings by the peer
MaxConn == 2         \* websockets the peer lets the Connection open
MaxInbox == 1        \* frames received and not yet read, per websocket
MaxRegOps == 2       \* add_handler / remove_handler calls
MaxCalls == 4        \* what the environment does and the registry calls
                     \* together

\* ------------------------------------------------------ the cdp schema
\* cdp modules (namespaces) and the classes they declare; the always-on
\* pair is the tuple of line 447.
Domains == {"network", "page", "target"}
AlwaysOn == {"target", "storage"}
EventTypes == {"network.A", "network.B", "page.A", "target.A"}
cdp_get_module(e) ==
    CASE e \in {"network.A", "network.B"} -> "network"
      [] e = "page.A" -> "page"
      [] OTHER -> "target"
Members(d) == {e \in EventTypes : cdp_get_module(e) = d}
\* inspect.getmembers_static returns the members sorted by name
MemberList(d) ==
    CASE d = "network" -> <<"network.A", "network.B">>
      [] d = "page" -> <<"page.A">>
      [] OTHER -> <<"target.A">>
Callbacks == {"h1", "h2"}
UnknownId == 999

\* ------------------------------------------------------------ helpers
Range(s) == {s[i] : i \in 1..Len(s)}
Contains(s, x) == \E i \in 1..Len(s) : s[i] = x
\* list.remove(x): drops the first occurrence; the callers guard the
\* ValueError of an absent element
ListRemove(s, x) ==
    IF ~Contains(s, x) THEN s
    ELSE LET i == CHOOSE j \in 1..Len(s) :
                    s[j] = x /\ \A k \in 1..(j-1) : s[k] # x
         IN SubSeq(s, 1, i-1) \o SubSeq(s, i+1, Len(s))
RECURSIVE RemoveAll(_, _)
RemoveAll(s, xs) ==
    IF xs = <<>> THEN s ELSE RemoveAll(ListRemove(s, Head(xs)), Tail(xs))

\* handlers is a dict with insertion order: a sequence of [k, v] entries
Keys(h) == [i \in 1..Len(h) |-> h[i].k]
HasKey(h, e) == \E i \in 1..Len(h) : h[i].k = e
Idx(h, e) == CHOOSE i \in 1..Len(h) : h[i].k = e
Get(h, e) == IF HasKey(h, e) THEN h[Idx(h, e)].v ELSE <<>>
DictAppend(h, e, cb) ==
    IF HasKey(h, e) THEN [h EXCEPT ![Idx(h, e)].v = Append(@, cb)]
    ELSE Append(h, [k |-> e, v |-> <<cb>>])
DictDel(h, e) == SelectSeq(h, LAMBDA r : r.k # e)

\* namespaces with at least one event type whose callback list is not empty
Implied(h) == {cdp_get_module(h[i].k) : i \in {j \in 1..Len(h) : Len(h[j].v) > 0}}

\* ------------------------------------------------------------- tasks
Callers == 1..NCallers
Gens == 1..MaxConn
Lid(g) == NCallers + g          \* the task of the listener of websocket g
Tasks == 1..(NCallers + MaxConn)
Listeners == {Lid(g) : g \in Gens}
GenOf(t) == t - NCallers

Frame(fn, pc) ==
    [fn |-> fn, pc |-> pc, upd |-> FALSE, mth |-> "", dom |-> "",
     snap |-> <<>>, copy |-> <<>>, en |-> <<>>, txi |-> 0, aw |-> 0,
     clean |-> TRUE, fl |-> <<>>, k |-> 0]

VARIABLES
    websocket,        \* self._websocket: 0 is None, g the g-th websocket
    close_code,       \* websocket g reports a close code
    nconn,            \* websockets opened so far
    listener_task,    \* self._listener_task: 0 is None, g the listener of g
    lst,              \* listener g: "none", "run", "done", "cancelled", "crashed"
    cancelReq,        \* listener g: cancel() called, CancelledError not yet thrown
    connLock,         \* self._connection_lock: holder, 0 is unlocked
    connWait,         \* its waiters, first come first served
    mapLock,          \* self._lock: holder, 0 is unlocked
    mapper,           \* self.mapper: id -> index of the Transaction in txs
    count,            \* self.__count__: the next id
    txs,              \* the Transactions made so far, in creation order
    handlers,         \* self.handlers
    enabled_domains,  \* self.enabled_domains
    sent,             \* frames handed to the websockets, in order
    awaiting,         \* requests the peer has received and not answered
    inbox,            \* websocket g: frames received, not yet read
    stack,            \* task -> its frames, innermost last
    exc,              \* task -> the exception being raised, or "none"
    ret,              \* task -> what its last send() returned or raised
    running,          \* the task the scheduler runs, 0 when all are suspended
    curop,            \* caller -> the call it is in
    redo,             \* caller -> "again": its disconnect() began on a
                      \* connection never connected or after a disconnect();
                      \* "first": another disconnect(); "no": a connect or
                      \* send has begun since, or it is in no disconnect()
    ndisc,            \* 1: a disconnect() has ended, and no connect or send
                      \* has begun since that disconnect() began
    warned,           \* "unknown id" warnings logged (line 508)
    ops,              \* calls started
    regOps,           \* registry calls made
    lastreg,          \* the last registry call: its arguments, and the
                      \* registry it found
    lastcall,         \* the last Transaction.__call__: the Transaction it
                      \* found and what it raised
    calls,            \* the callbacks run or scheduled, in order
    htasks,           \* the handler tasks created and not yet run
    nev,              \* event frames the peer has sent
    lastsnap,         \* the event frame dispatched last: its number and
                      \* the callbacks snapshotted for it
    pend,             \* thread -> its add_handler or remove_handler call in progress
    held              \* namespace -> an enable command for it has succeeded
                      \* on the open websocket and the namespace has had
                      \* handlers ever since

vars == <<websocket, close_code, nconn, listener_task, lst, cancelReq,
          connLock, connWait, mapLock, mapper, count, txs, handlers,
          enabled_domains, sent, awaiting, inbox, stack, exc, ret,
          running, curop, redo, ndisc, warned, ops, regOps,
          lastreg, lastcall, calls, htasks, nev, lastsnap, pend, held>>

connVars == <<websocket, close_code, nconn, listener_task, lst, cancelReq>>
lockVars == <<connLock, connWait>>
txVars == <<mapLock, mapper, count, txs>>
regVars == <<handlers, enabled_domains>>
wireVars == <<sent, awaiting, inbox>>
callVars == <<curop, redo, ndisc, warned, ops>>
auxVars == <<lastreg, lastcall, calls, htasks, nev, lastsnap>>

\* ----------------------------------------------------------- registry
\* add_handler and remove_handler take self._handlers_lock once for every
\* `with` block they go through and release it in between.  They never
\* await, so no task gets in between two blocks; a call made from another
\* thread does.
NThreads == 2        \* threads that call add_handler / remove_handler
Threads == 1..NThreads
\* the thread of the event loop, in which the tasks and the callbacks run
LoopThread == 0

RECURSIVE AppendEach(_, _, _)
AppendEach(h, es, cb) ==
    IF es = <<>> THEN h
    ELSE AppendEach(DictAppend(h, Head(es), cb), Tail(es), cb)

RECURSIVE DelEach(_, _)
DelEach(h, es) ==
    IF es = <<>> THEN h ELSE DelEach(DictDel(h, Head(es)), Tail(es))

NoHandler == "None"
\* lines 315-318: callbacks.remove(handler) in every list that holds it
RemoveCallback(h, cb) ==
    [i \in 1..Len(h) |-> [h[i] EXCEPT !.v = ListRemove(@, cb)]]

\* A call in progress: rest is what is left of the target list (a target
\* that is no list is a list of one, lines 278-279 and 320-321), cbdue
\* says that the block of lines 315-318 is still to come.
NoCallIn == [op |-> "none", rest |-> <<>>, cb |-> "", cbdue |-> FALSE]
Called(op, targets, cb) ==
    [op |-> op, rest |-> targets, cb |-> cb,
     cbdue |-> op = "remove" /\ cb # NoHandler]
Returned(c) == ~c.cbdue /\ c.rest = <<>>

\* the registry after the next `with self._handlers_lock:` block of call c:
\* lines 294-296 or 299-300 of add_handler, lines 315-318, 336-339 or
\* 342-344 of remove_handler
Section(c, h) ==
    IF c.op = "add"
    THEN IF Head(c.rest) \in Domains
         THEN AppendEach(h, MemberList(Head(c.rest)), c.cb)
         ELSE DictAppend(h, Head(c.rest), c.cb)
    ELSE IF c.cbdue THEN RemoveCallback(h, c.cb)
    ELSE IF Head(c.rest) \in Domains
         THEN DelEach(h, MemberList(Head(c.rest)))
         ELSE DictDel(h, Head(c.rest))

\* the call after that block; after the block of a namespace it returns
\* (lines 297 and 340)
After(c) ==
    IF c.cbdue THEN [c EXCEPT !.cbdue = FALSE]
    ELSE [c EXCEPT !.rest = IF Head(@) \in Domains THEN <<>> ELSE Tail(@)]

\* a call that no call of another thread gets into
RECURSIVE Alone(_, _)
Alone(c, h) == IF Returned(c) THEN h ELSE Alone(After(c), Section(c, h))

\* add_handler, lines 278-300
add_handler(h, targets, cb) == Alone(Called("add", targets, cb), h)

\* remove_handler, lines 314-344
remove_handler(h, targets, cb) == Alone(Called("remove", targets, cb), h)

\* The threads are alike while they are in no call: of those, the one with
\* the lowest number makes the next call.
Caller(th) ==
    /\ pend[th] = NoCallIn
    /\ \A u \in Threads : u < th => pend[u] # NoCallIn

\* the targets of the registry calls made next to connect, send and
\* disconnect: a namespace with two event types, and an event type of a
\* namespace that is always on
Targets == {<<"network">>, <<"target.A">>}

NoRet == [txi |-> 0, st |-> "none", val |-> 0]
NoOpen == [targets |-> <<>>, before |-> <<>>, alone |-> TRUE]
NoReg == [op |-> "none", targets |-> <<>>, cb |-> "", before |-> <<>>,
          after |-> <<>>, alone |-> TRUE, open |-> [th \in Threads |-> NoOpen]]
NoCall == [i |-> 0, before |-> <<>>, kind |-> "", val |-> 0, raised |-> "none"]

\* Connection.__init__, lines 225-240
Init ==
    /\ websocket = 0
    /\ close_code = [g \in Gens |-> FALSE]
    /\ nconn = 0
    /\ listener_task = 0
    /\ lst = [g \in Gens |-> "none"]
    /\ cancelReq = [g \in Gens |-> FALSE]
    /\ connLock = 0
    /\ connWait = <<>>
    /\ mapLock = 0
    /\ mapper = <<>>
    /\ count = 0
    /\ txs = <<>>
    /\ handlers = <<>>
    /\ enabled_domains = <<>>
    /\ sent = <<>>
    /\ awaiting = {}
    /\ inbox = [g \in Gens |-> <<>>]
    /\ stack = [t \in Tasks |-> <<>>]
    /\ exc = [t \in Tasks |-> "none"]
    /\ ret = [t \in Tasks |-> NoRet]
    /\ running = 0
    /\ curop = [t \in Callers |-> "none"]
    /\ redo = [t \in Callers |-> "no"]
    /\ ndisc = 0
    /\ warned = 0
    /\ ops = 0
    /\ regOps = 0
    /\ lastreg = NoReg
    /\ lastcall = NoCall
    /\ calls = <<>>
    /\ htasks = <<>>
    /\ nev = 0
    /\ lastsnap = [n |-> 0, cbs |-> <<>>, ev |-> ""]
    /\ held = [d \in Domains |-> FALSE]
    /\ pend = [th \in Threads \cup {LoopThread} |-> NoCallIn]

\* ----------------------------------------------------- frame plumbing
Depth(t) == Len(stack[t])
Top(t) == stack[t][Depth(t)]
At(t, fn, pc) == Depth(t) > 0 /\ Top(t).fn = fn /\ Top(t).pc = pc
SetTop(t, f) == [stack EXCEPT ![t] = [@ EXCEPT ![Len(@)] = f]]
Goto(t, pc) == SetTop(t, [Top(t) EXCEPT !.pc = pc])
\* leave the top frame at pc and call fr
Invoke(t, pc, fr) ==
    [stack EXCEPT ![t] = Append([@ EXCEPT ![Len(@)].pc = pc], fr)]
Pop(t) == [stack EXCEPT ![t] = SubSeq(@, 1, Len(@) - 1)]

\* property closed, lines 243-246
closed == IF websocket = 0 THEN TRUE ELSE close_code[websocket]

\* ---------------------------------------------- asyncio.Lock, async with
\* Lock.acquire takes a free lock at once when nobody waits for it;
\* Lock.release hands the lock to the first waiter.
Released == [holder |-> IF connWait = <<>> THEN 0 ELSE Head(connWait),
             wait |-> IF connWait = <<>> THEN <<>> ELSE Tail(connWait)]
Release ==
    /\ connLock' = Released.holder
    /\ connWait' = Released.wait

LockFns == {"connect", "send", "disconnect"}

\* `async with self._connection_lock`, lines 369, 376, 578: the lock is free
LockAcquire(t) ==
    /\ running = t
    /\ Depth(t) > 0 /\ Top(t).fn \in LockFns /\ Top(t).pc = "lock"
    /\ connLock = 0 /\ connWait = <<>>
    /\ connLock' = t
    /\ stack' = Goto(t, "locked")
    /\ UNCHANGED <<held, pend, auxVars, connVars, connWait, txVars, regVars, wireVars, exc, ret,
                   running, callVars, regOps>>

\* the lock is held (possibly by this very task): queue up and suspend
LockBlock(t) ==
    /\ running = t
    /\ Depth(t) > 0 /\ Top(t).fn \in LockFns /\ Top(t).pc = "lock"
    /\ ~(connLock = 0 /\ connWait = <<>>)
    /\ connWait' = Append(connWait, t)
    /\ stack' = Goto(t, "lockwait")
    /\ running' = 0
    /\ UNCHANGED <<held, pend, auxVars, connVars, connLock, txVars, regVars, wireVars, exc, ret,
                   callVars, regOps>>

\* a waiter is resumed once release() has handed it the lock
LockWake(t) ==
    /\ running = 0
    /\ Depth(t) > 0 /\ Top(t).pc = "lockwait"
    /\ connLock = t /\ ~Contains(connWait, t)
    /\ ~(t \in Listeners /\ cancelReq[GenOf(t)])
    /\ stack' = Goto(t, "locked")
    /\ running' = t
    /\ UNCHANGED <<held, pend, auxVars, connVars, lockVars, txVars, regVars, wireVars, exc, ret,
                   callVars, regOps>>

\* ------------------------------------------------------------ callers
\* The tasks are alike while they are in no call: of the tasks in no call,
\* the one with the lowest number makes the next call.
Start(t, op, max) ==
    /\ running = 0
    /\ t \in Callers /\ stack[t] = <<>>
    /\ \A u \in Callers : u < t => curop[u] # "none"
    /\ ops < max
    /\ ops' = ops + 1
    /\ curop' = [curop EXCEPT ![t] = op]
    /\ redo' = [u \in Callers |->
                  IF op # "disconnect" THEN "no"
                  ELSE IF u # t THEN redo[u]
                  ELSE IF \/ nconn = 0 /\ \A v \in Callers : curop[v] = "none"
                          \/ ndisc > 0
                       THEN "again"
                       ELSE "first"]
    /\ ndisc' = IF op = "disconnect" THEN ndisc ELSE 0
    /\ stack' = [stack EXCEPT ![t] = <<[Frame(op, "lock") EXCEPT !.mth = "cmd"]>>]
    /\ running' = t
    /\ UNCHANGED <<held, pend, auxVars, connVars, lockVars, txVars, regVars, wireVars, exc, ret,
                   warned, regOps>>

Within == ops + regOps < MaxCalls
StartOp(t, op) == Within /\ Start(t, op, MaxOps)
StartConnect(t) == StartOp(t, "connect")
StartSend(t) == StartOp(t, "send")
StartDisconnect(t) == StartOp(t, "disconnect")

\* the call returns to the caller (exc[t] = "none", with ret[t] what a
\* send returned) or raises exc[t] into it
Returning(t) == running = t /\ t \in Callers /\ stack[t] = <<>>
OpDone(t) ==
    /\ running = t
    /\ t \in Callers /\ stack[t] = <<>>
    /\ curop' = [curop EXCEPT ![t] = "none"]
    /\ redo' = [redo EXCEPT ![t] = "no"]
    /\ ndisc' = IF curop[t] = "disconnect" /\ redo[t] # "no" THEN 1 ELSE ndisc
    /\ exc' = [exc EXCEPT ![t] = "none"]
    /\ ret' = [ret EXCEPT ![t] = NoRet]
    /\ running' = 0
    /\ UNCHANGED <<held, pend, auxVars, connVars, lockVars, txVars, regVars, wireVars, stack,
                   warned, ops, regOps>>

\* ------------------------------------------------------------ connect
\* connect, lines 369-370: inside the lock, call _connect_unlocked
ConnectEnter(t) ==
    /\ running = t /\ At(t, "connect", "locked")
    /\ stack' = Invoke(t, "c_exit", Frame("connect_unlocked", "cu_check"))
    /\ UNCHANGED <<held, pend, auxVars, connVars, lockVars, txVars, regVars, wireVars, exc, ret,
                   running, callVars, regOps>>

\* leaving `async with`, by return or by exception
ConnectExit(t) ==
    /\ running = t /\ At(t, "connect", "c_exit")
    /\ Release
    /\ stack' = Pop(t)
    /\ UNCHANGED <<held, pend, auxVars, connVars, txVars, regVars, wireVars, exc, ret, running,
                   callVars, regOps>>

\* _connect_unlocked, line 348: the websocket is live, nothing to do
CuAlreadyOpen(t) ==
    /\ running = t /\ At(t, "connect_unlocked", "cu_check")
    /\ ~closed
    /\ stack' = Pop(t)
    /\ UNCHANGED <<held, pend, auxVars, connVars, lockVars, txVars, regVars, wireVars, exc, ret,
                   running, callVars, regOps>>

\* lines 348-354: await websockets.asyncio.client.connect(...)
CuBeginOpen(t) ==
    /\ running = t /\ At(t, "connect_unlocked", "cu_check")
    /\ closed
    /\ stack' = Goto(t, "cu_connecting")
    /\ running' = 0
    /\ UNCHANGED <<held, pend, auxVars, connVars, lockVars, txVars, regVars, wireVars, exc, ret,
                   callVars, regOps>>

\* lines 350-355 and 361: the websocket is open, the listener task is
\* created, and _register_handlers is called
CuOpened(t) ==
    /\ running = 0 /\ At(t, "connect_unlocked", "cu_connecting")
    /\ nconn < MaxConn
    /\ nconn' = nconn + 1
    /\ websocket' = nconn + 1
    /\ listener_task' = nconn + 1
    /\ lst' = [lst EXCEPT ![nconn + 1] = "run"]
    /\ stack' = [Invoke(t, "cu_done", Frame("register_handlers", "rh_start"))
                    EXCEPT ![Lid(nconn + 1)] = <<Frame("listener", "l_start")>>]
    /\ running' = t
    /\ held' = [d \in Domains |-> FALSE]
    /\ UNCHANGED <<pend, auxVars, close_code, cancelReq, lockVars, txVars, regVars, wireVars,
                   exc, ret, callVars, regOps>>

\* lines 357-359: opening failed (it may at any attempt), the exception is
\* raised again
CuOpenFailed(t) ==
    /\ running = 0 /\ At(t, "connect_unlocked", "cu_connecting")
    /\ exc' = [exc EXCEPT ![t] = "OSError"]
    /\ stack' = Pop(t)
    /\ running' = t
    /\ UNCHANGED <<held, pend, auxVars, connVars, lockVars, txVars, regVars, wireVars, ret,
                   callVars, regOps>>

\* _register_handlers has returned (it raises nothing)
CuReturn(t) ==
    /\ running = t /\ At(t, "connect_unlocked", "cu_done")
    /\ stack' = Pop(t)
    /\ UNCHANGED <<held, pend, auxVars, connVars, lockVars, txVars, regVars, wireVars, exc, ret,
                   running, callVars, regOps>>

\* -------------------------------------------------- _register_handlers
\* A pass is "clean" while nothing but the pass itself has changed the
\* registry or enabled_domains since it began and none of its enable
\* commands has failed.  Touch marks the passes an action interferes with.
Touch(st, t, k) ==
    [u \in Tasks |->
        [i \in 1..Len(st[u]) |->
            IF st[u][i].fn = "register_handlers" /\ ~(u = t /\ i = k)
            THEN [st[u][i] EXCEPT !.clean = FALSE]
            ELSE st[u][i]]]

\* lines 428-433: copy enabled_domains, snapshot the registry, drop the
\* event types whose callback list is empty
RhSnapshot(t) ==
    /\ running = t /\ At(t, "register_handlers", "rh_start")
    /\ stack' = SetTop(t, [Top(t) EXCEPT !.pc = "rh_loop",
                                         !.copy = enabled_domains,
                                         !.snap = Keys(handlers)])
    /\ handlers' = SelectSeq(handlers, LAMBDA r : Len(r.v) # 0)
    /\ UNCHANGED <<held, pend, auxVars, connVars, lockVars, txVars, enabled_domains, wireVars, exc,
                   ret, running, callVars, regOps>>

NextType(t) == Head(Top(t).snap)
InLoop(t) ==
    running = t /\ At(t, "register_handlers", "rh_loop") /\ Top(t).snap # <<>>
Advance(t) == SetTop(t, [Top(t) EXCEPT !.snap = Tail(@)])

\* lines 436-437: the event type is no longer in the registry
RhSkip(t) ==
    /\ InLoop(t)
    /\ ~HasKey(handlers, NextType(t))
    /\ stack' = Advance(t)
    /\ UNCHANGED <<held, pend, auxVars, connVars, lockVars, txVars, regVars, wireVars, exc, ret,
                   running, callVars, regOps>>

\* lines 440-445: its domain is enabled already and is still in use
RhSeen(t) ==
    /\ InLoop(t)
    /\ HasKey(handlers, NextType(t))
    /\ Contains(enabled_domains, cdp_get_module(NextType(t)))
    /\ stack' = SetTop(t, [Top(t) EXCEPT
                    !.snap = Tail(@),
                    !.copy = ListRemove(@, cdp_get_module(NextType(t)))])
    /\ UNCHANGED <<held, pend, auxVars, connVars, lockVars, txVars, regVars, wireVars, exc, ret,
                   running, callVars, regOps>>

\* lines 447-449: target and storage are enabled by default
RhAlwaysOn(t) ==
    /\ InLoop(t)
    /\ HasKey(handlers, NextType(t))
    /\ ~Contains(enabled_domains, cdp_get_module(NextType(t)))
    /\ cdp_get_module(NextType(t)) \in AlwaysOn
    /\ stack' = Advance(t)
    /\ UNCHANGED <<held, pend, auxVars, connVars, lockVars, txVars, regVars, wireVars, exc, ret,
                   running, callVars, regOps>>

\* lines 450-458: mark the domain enabled and send its enable command
RhEnable(t) ==
    /\ InLoop(t)
    /\ HasKey(handlers, NextType(t))
    /\ ~Contains(enabled_domains, cdp_get_module(NextType(t)))
    /\ cdp_get_module(NextType(t)) \notin AlwaysOn
    /\ LET d == cdp_get_module(NextType(t)) IN
        /\ enabled_domains' = Append(enabled_domains, d)
        /\ stack' = Touch(
              Invoke(t, "rh_sent",
                     [Frame("send", "lock") EXCEPT !.upd = TRUE,
                                                   !.mth = "enable",
                                                   !.dom = d]),
              t, Depth(t))
    /\ UNCHANGED <<held, pend, auxVars, connVars, lockVars, txVars, handlers, wireVars, exc, ret,
                   running, callVars, regOps>>

\* line 458 returned: `finally: continue`
RhSendOk(t) ==
    /\ running = t /\ At(t, "register_handlers", "rh_sent")
    /\ exc[t] = "none"
    /\ stack' = SetTop(t, [Top(t) EXCEPT !.pc = "rh_loop", !.snap = Tail(@)])
    /\ UNCHANGED <<held, pend, auxVars, connVars, lockVars, txVars, regVars, wireVars, exc, ret,
                   running, callVars, regOps>>

\* lines 459-468: the send raised; roll the marking back and go on
\* (fl: the domains whose enable failed in this pass)
RhSendFailed(t) ==
    /\ running = t /\ At(t, "register_handlers", "rh_sent")
    /\ exc[t] # "none"
    /\ exc' = [exc EXCEPT ![t] = "none"]
    /\ LET d == cdp_get_module(NextType(t)) IN
        enabled_domains' = ListRemove(enabled_domains, d)
    /\ stack' = Touch(SetTop(t, [Top(t) EXCEPT !.pc = "rh_loop",
                                               !.snap = Tail(@),
                                               !.clean = FALSE,
                                               !.fl = Append(@,
                                                   cdp_get_module(NextType(t)))]),
                      t, Depth(t))
    /\ UNCHANGED <<held, pend, auxVars, connVars, lockVars, txVars, handlers, wireVars, ret,
                   running, callVars, regOps>>

\* lines 469-478: the domains left in the copy are unused; remove them
RhFinal(t) ==
    /\ running = t /\ At(t, "register_handlers", "rh_loop")
    /\ Top(t).snap = <<>>
    /\ enabled_domains' = RemoveAll(enabled_domains, Top(t).copy)
    /\ stack' = Touch(Goto(t, "rh_done"), t, Depth(t))
    /\ UNCHANGED <<held, pend, auxVars, connVars, lockVars, txVars, handlers, wireVars, exc, ret,
                   running, callVars, regOps>>

\* the frame that called the pass remembers what failed in it
RhReturn(t) ==
    /\ running = t /\ At(t, "register_handlers", "rh_done")
    /\ stack' = [stack EXCEPT ![t] =
                    [i \in 1..(Len(@) - 1) |->
                        IF i = Len(@) - 1 THEN [@[i] EXCEPT !.fl = Top(t).fl]
                        ELSE @[i]]]
    /\ UNCHANGED <<held, pend, auxVars, connVars, lockVars, txVars, regVars, wireVars, exc, ret,
                   running, callVars, regOps>>

\* --------------------------------------------------------------- send
\* lines 578-579: inside the lock, call _connect_unlocked
SendEnter(t) ==
    /\ running = t /\ At(t, "send", "locked")
    /\ stack' = Invoke(t, "s_unlock", Frame("connect_unlocked", "cu_check"))
    /\ UNCHANGED <<held, pend, auxVars, connVars, lockVars, txVars, regVars, wireVars, exc, ret,
                   running, callVars, regOps>>

\* leaving `async with`: an exception of _connect_unlocked goes on up
SendUnlock(t) ==
    /\ running = t /\ At(t, "send", "s_unlock")
    /\ Release
    /\ stack' = IF exc[t] = "none" THEN Goto(t, "s_reg") ELSE Pop(t)
    /\ ret' = [ret EXCEPT ![t] = NoRet]
    /\ UNCHANGED <<held, pend, auxVars, connVars, txVars, regVars, wireVars, exc, running,
                   callVars, regOps>>

\* lines 580-581: unless _is_update, run the reconciliation pass
SendRegister(t) ==
    /\ running = t /\ At(t, "send", "s_reg")
    /\ stack' = IF Top(t).upd THEN Goto(t, "s_tx")
                ELSE Invoke(t, "s_tx", Frame("register_handlers", "rh_start"))
    /\ UNCHANGED <<held, pend, auxVars, connVars, lockVars, txVars, regVars, wireVars, exc, ret,
                   running, callVars, regOps>>

\* itertools.count: next() returns the counter and adds one
\* a counter that does not advance
SameCount(c) == c
\* a counter that counts down
PrevCount(c) == c - 1

NextCount(c) == c + 1

\* Transaction.__init__, lines 82-92
\* (gen: the generator __cdp_obj__ has yielded the command and waits for
\* the result, "live", or has finished, "spent")
Transaction(f) == [id |-> -1, mth |-> f.mth, dom |-> f.dom,
                   st |-> "pending", val |-> 0, gen |-> "live"]

MapPut(m, id, txi) ==
    [i \in (DOMAIN m) \cup {id} |-> IF i = id THEN txi ELSE m[i]]
\* a pop that leaves the entry in the table
MapKeep(m, id) == m
MapDel(m, id) == [i \in (DOMAIN m) \ {id} |-> m[i]]

\* the frame of send() after line 587 has handed the frame over, at pc;
\* an enable command is noted in the pass that sent it (en: the enables
\* the pass transmitted)
Transmitted(t, txi, pc) ==
    [stack EXCEPT ![t] =
        [i \in 1..Len(@) |->
            IF i = Len(@) THEN [@[i] EXCEPT !.pc = pc, !.txi = txi]
            ELSE IF i = Len(@) - 1 /\ @[Len(@)].upd
                    /\ @[i].fn = "register_handlers"
            THEN [@[i] EXCEPT !.en = Append(@, stack[t][Len(stack[t])].dom)]
            ELSE @[i]]]

\* lines 582-586: make the Transaction, give it the next id and put it in
\* the table inside self._lock, which is free whenever a task runs; no
\* await between taking the id and line 587 gives the turn away
SendAssign(t) ==
    /\ running = t /\ At(t, "send", "s_tx")
    /\ mapLock = 0
    /\ LET id == count
           txi == Len(txs) + 1
       IN /\ count' = NextCount(count)
          /\ txs' = Append(txs, [Transaction(Top(t)) EXCEPT !.id = id])
          /\ mapper' = MapPut(mapper, id, txi)
          /\ stack' = SetTop(t, [Top(t) EXCEPT !.pc = "s_send", !.txi = txi])
    /\ mapLock' = 0
    /\ UNCHANGED <<held, pend, auxVars, connVars, lockVars, regVars, wireVars, exc, ret,
                   running, callVars, regOps>>

\* line 587: hand the frame to the websocket, outside the lock.
\* `await websocket.send()` either returns in the same turn, and line 588
\* suspends the task on its Transaction, or suspends it at line 587 with
\* the frame handed over (a full write buffer), ready to go on
SendTransmit(t) ==
    /\ running = t /\ At(t, "send", "s_send")
    /\ ~closed
    /\ LET id == txs[Top(t).txi].id IN
          /\ sent' = Append(sent, [id |-> id, mth |-> Top(t).mth,
                                   dom |-> Top(t).dom, ws |-> websocket])
          /\ awaiting' = awaiting \cup {[ws |-> websocket, id |-> id]}
          /\ \E pc \in {"s_await", "s_drain"} :
                stack' = Transmitted(t, Top(t).txi, pc)
    /\ running' = 0
    /\ UNCHANGED <<held, pend, auxVars, connVars, lockVars, txVars, regVars, inbox, exc, ret,
                   callVars, regOps>>

\* websocket.send() returns to a task it had suspended; the Transaction
\* is still pending and line 588 suspends the task on it
SendDrained(t) ==
    /\ running = 0 /\ At(t, "send", "s_drain")
    /\ txs[Top(t).txi].st = "pending"
    /\ stack' = Goto(t, "s_await")
    /\ UNCHANGED <<held, pend, auxVars, connVars, lockVars, txVars, regVars, wireVars, exc, ret,
                   running, callVars, regOps>>

\* line 587 on a websocket that has closed meanwhile: websocket.send
\* raises ConnectionClosed and the Transaction stays in the table
SendTransmitClosed(t) ==
    /\ running = t /\ At(t, "send", "s_send")
    /\ closed
    /\ exc' = [exc EXCEPT ![t] = "ConnectionClosed"]
    /\ ret' = [ret EXCEPT ![t] = NoRet]
    /\ stack' = Pop(t)
    /\ UNCHANGED <<held, pend, auxVars, connVars, lockVars, txVars, regVars, wireVars, running,
                   callVars, regOps>>

\* line 588: `return await tx` once the Transaction is done (also when it
\* was done before the task came back from line 587); nothing refers to
\* the Transaction after that ("gone")
SendResume(t) ==
    /\ running = 0
    /\ At(t, "send", "s_await") \/ At(t, "send", "s_drain")
    /\ txs[Top(t).txi].st # "pending"
    /\ LET tx == txs[Top(t).txi] IN
        /\ ret' = [ret EXCEPT ![t] =
                      [txi |-> Top(t).txi, st |-> tx.st, val |-> tx.val]]
        /\ exc' = [exc EXCEPT ![t] =
                      IF tx.st = "rejected" THEN "ProtocolException" ELSE "none"]
    /\ txs' = [txs EXCEPT ![Top(t).txi] =
                  [@ EXCEPT !.st = IF @ = "resolved" /\ txs[Top(t).txi].mth = "enable"
                                   THEN @ ELSE "gone",
                            !.val = 0]]
    /\ stack' = Pop(t)
    /\ running' = t
    /\ UNCHANGED <<held, pend, auxVars, connVars, lockVars, mapLock, mapper, count, regVars,
                   wireVars, callVars, regOps>>

\* --------------------------------------------------------- disconnect
Finished(g) == lst[g] \notin {"none", "run"}
Failed(g) == lst[g] \notin {"none", "run", "done", "cancelled"}

\* line 377: there is no listener task
DisconnectNoListener(t) ==
    /\ running = t /\ At(t, "disconnect", "locked")
    /\ listener_task = 0
    /\ stack' = Goto(t, "d_close")
    /\ UNCHANGED <<held, pend, auxVars, connVars, lockVars, txVars, regVars, wireVars, exc, ret,
                   running, callVars, regOps>>

\* lines 378-380: cancel the running listener and wait for it.  When the
\* listener itself is the caller, the await is an await on the current
\* task; it suspends for one turn of the loop as well.
DisconnectCancel(t) ==
    /\ running = t /\ At(t, "disconnect", "locked")
    /\ listener_task # 0 /\ ~Finished(listener_task)
    /\ cancelReq' = [cancelReq EXCEPT ![listener_task] = TRUE]
    /\ stack' = SetTop(t, [Top(t) EXCEPT !.pc = "d_await",
                                         !.aw = listener_task])
    /\ running' = 0
    /\ UNCHANGED <<held, pend, auxVars, websocket, close_code, nconn, listener_task, lst, lockVars,
                   txVars, regVars, wireVars, exc, ret, callVars, regOps>>

\* what `await self._listener_task` gives for a finished task: a cancelled
\* task raises CancelledError, which lines 381-382 swallow; a task that
\* ended with an exception raises it again
AwaitOutcome(g) == IF Failed(g) THEN lst[g] ELSE "none"

\* lines 378-382 on a listener that has finished already: cancel() does
\* nothing and the await does not suspend
DisconnectListenerFinished(t) ==
    /\ running = t /\ At(t, "disconnect", "locked")
    /\ listener_task # 0 /\ Finished(listener_task)
    /\ exc' = [exc EXCEPT ![t] = AwaitOutcome(listener_task)]
    /\ stack' = Goto(t, IF Failed(listener_task) THEN "d_exit" ELSE "d_close")
    /\ UNCHANGED <<held, pend, auxVars, connVars, lockVars, txVars, regVars, wireVars, ret,
                   running, callVars, regOps>>

\* the awaited listener has ended
DisconnectAwaited(t) ==
    /\ running = 0 /\ At(t, "disconnect", "d_await")
    /\ Lid(Top(t).aw) # t
    /\ Finished(Top(t).aw)
    /\ exc' = [exc EXCEPT ![t] = AwaitOutcome(Top(t).aw)]
    /\ stack' = Goto(t, IF Failed(Top(t).aw) THEN "d_exit" ELSE "d_close")
    /\ running' = t
    /\ UNCHANGED <<held, pend, auxVars, connVars, lockVars, txVars, regVars, wireVars, ret,
                   callVars, regOps>>

\* the listener awaited itself: the pending cancellation is thrown into it
\* at the await, where lines 381-382 swallow it
DisconnectSelfAwait(t) ==
    /\ running = 0 /\ At(t, "disconnect", "d_await")
    /\ Lid(Top(t).aw) = t
    /\ cancelReq' = [cancelReq EXCEPT ![Top(t).aw] = FALSE]
    /\ stack' = Goto(t, "d_close")
    /\ running' = t
    /\ UNCHANGED <<held, pend, auxVars, websocket, close_code, nconn, listener_task, lst, lockVars,
                   txVars, regVars, wireVars, exc, ret, callVars, regOps>>

\* a disconnect that also forgets the pending requests
DisconnectCloseFlush(t) ==
    /\ running = t /\ At(t, "disconnect", "d_close")
    /\ websocket # 0
    /\ enabled_domains' = <<>>
    /\ mapper' = <<>>
    /\ stack' = Touch(SetTop(t, [Top(t) EXCEPT !.pc = "d_closing",
                                               !.aw = websocket]), t, 0)
    /\ running' = 0
    /\ UNCHANGED <<held, pend, auxVars, connVars, lockVars, mapLock, count, txs, handlers,
                   wireVars, exc, ret, callVars, regOps>>

\* lines 383-385: clear enabled_domains and close the websocket
DisconnectClose(t) ==
    /\ running = t /\ At(t, "disconnect", "d_close")
    /\ websocket # 0
    /\ enabled_domains' = <<>>
    /\ stack' = Touch(SetTop(t, [Top(t) EXCEPT !.pc = "d_closing",
                                               !.aw = websocket]), t, 0)
    /\ running' = 0
    /\ held' = [d \in Domains |-> FALSE]
    /\ UNCHANGED <<pend, auxVars, connVars, lockVars, txVars, handlers, wireVars, exc, ret,
                   callVars, regOps>>

\* line 383: there is no websocket
DisconnectNoSocket(t) ==
    /\ running = t /\ At(t, "disconnect", "d_close")
    /\ websocket = 0
    /\ stack' = Goto(t, "d_exit")
    /\ UNCHANGED <<held, pend, auxVars, connVars, lockVars, txVars, regVars, wireVars, exc, ret,
                   running, callVars, regOps>>

\* websocket.close() has returned
DisconnectClosed(t) ==
    /\ running = 0 /\ At(t, "disconnect", "d_closing")
    /\ close_code' = [close_code EXCEPT ![Top(t).aw] = TRUE]
    /\ stack' = Goto(t, "d_exit")
    /\ running' = t
    /\ UNCHANGED <<held, pend, auxVars, websocket, nconn, listener_task, lst, cancelReq, lockVars,
                   txVars, regVars, wireVars, exc, ret, callVars, regOps>>

\* leaving `async with`, by return or by exception
DisconnectExit(t) ==
    /\ running = t /\ At(t, "disconnect", "d_exit")
    /\ Release
    /\ stack' = Pop(t)
    /\ UNCHANGED <<held, pend, auxVars, connVars, txVars, regVars, wireVars, exc, ret, running,
                   callVars, regOps>>

\* ------------------------------------------------------- Transaction
\* Transaction.__call__, lines 110-141.  A frame is [id, kind, val] with
\* kind "error" (it has an error field), "result" (a result the command's
\* generator accepts) or "badresult" (a result it raises KeyError on).
\* the value of the StopIteration that a finished generator raises: None
NoneValue == -1

\* lines 130-141: send the result into the generator.  A live generator
\* returns the parsed value (StopIteration, line 135) or raises KeyError
\* on a result it cannot decode (line 133), and is finished either way; a
\* finished one raises StopIteration with the value None whatever it is
\* sent.
Parsed(tx, msg) ==
    IF tx.gen = "spent"
    THEN [tx |-> [tx EXCEPT !.st = "resolved", !.val = NoneValue],
          raised |-> "none"]
    ELSE IF msg.kind = "badresult"
    THEN [tx |-> [tx EXCEPT !.gen = "spent"], raised |-> "KeyError"]
    ELSE [tx |-> [tx EXCEPT !.st = "resolved", !.val = msg.val,
                            !.gen = "spent"],
          raised |-> "none"]

\* a __call__ without the done() test of lines 119-120 and without the
\* InvalidStateError guards: it settles the Transaction again
Transaction_recall(tx, msg) ==
    IF msg.kind = "error"
    THEN [tx |-> [tx EXCEPT !.st = "rejected", !.val = msg.val],
          raised |-> "none"]
    ELSE Parsed(tx, msg)

\* Transaction.__call__, lines 110-141
Transaction_call(tx, msg) ==
    IF tx.st # "pending" THEN [tx |-> tx, raised |-> "none"]
    ELSE IF msg.kind = "error"
    THEN [tx |-> [tx EXCEPT !.st = "rejected", !.val = msg.val],
          raised |-> "none"]
    ELSE Parsed(tx, msg)

\* ----------------------------------------------------------- listener
\* line 486 reads self.websocket at every turn of the loop: W(g) is the
\* websocket whose recv() listener g is suspended in (0: in none yet), and
\* Readers(w) the listeners suspended in recv() of websocket w
W(g) == stack[Lid(g)][1].aw
Readers(w) ==
    {h \in Gens : /\ lst[h] = "run" /\ Depth(Lid(h)) > 0
                  /\ stack[Lid(h)][1].pc = "l_recv"
                  /\ stack[Lid(h)][1].aw = w}
\* websocket w has, or is about to get, a listener that reads it
Heard(w) ==
    \/ Readers(w) # {}
    \/ w = websocket /\ \E h \in Gens :
            lst[h] = "run" /\ Depth(Lid(h)) > 0
            /\ stack[Lid(h)][1].pc \in {"l_start", "l_dispatch", "l_body"}
Listening(g) ==
    /\ running = 0
    /\ lst[g] = "run" /\ At(Lid(g), "listener", "l_recv")
    /\ ~cancelReq[g]
\* The listener has handled a frame and goes round its loop, in the same
\* turn: recv() of the current websocket suspends it (line 486), unless
\* another listener is suspended there already.
Busy(g) == Readers(websocket) \ {g} # {}
Loop(g) ==
    SetTop(Lid(g), [Top(Lid(g)) EXCEPT
                      !.pc = IF Busy(g) THEN "l_loop" ELSE "l_recv",
                      !.aw = IF Busy(g) THEN @ ELSE websocket])
Turn(g) == IF Busy(g) THEN Lid(g) ELSE 0

\* line 486: the listener, in its first turn, calls recv() of the current
\* websocket and is suspended in it
ListenerRecv(g) ==
    /\ lst[g] = "run"
    /\ running = 0 /\ At(Lid(g), "listener", "l_start") /\ ~cancelReq[g]
    /\ Readers(websocket) = {}
    /\ stack' = SetTop(Lid(g), [Top(Lid(g)) EXCEPT !.pc = "l_recv",
                                                  !.aw = websocket])
    /\ running' = 0
    /\ UNCHANGED <<held, pend, auxVars, connVars, lockVars, txVars, regVars, wireVars, exc, ret,
                   callVars, regOps>>

\* line 486 while another listener is suspended in recv() of the current
\* websocket: recv raises ConcurrencyError, lines 495-499 raise it again
\* and the task ends with it
ListenerRecvBusy(g) ==
    /\ lst[g] = "run"
    /\ \/ running = Lid(g) /\ At(Lid(g), "listener", "l_loop")
       \/ running = 0 /\ At(Lid(g), "listener", "l_start") /\ ~cancelReq[g]
    /\ Readers(websocket) # {}
    /\ lst' = [lst EXCEPT ![g] = "ConcurrencyError"]
    /\ stack' = [stack EXCEPT ![Lid(g)] = <<>>]
    /\ running' = 0
    /\ UNCHANGED <<held, pend, auxVars, websocket, close_code, nconn, listener_task, cancelReq,
                   lockVars, txVars, regVars, wireVars, exc, ret, callVars, regOps>>

\* a pop that takes the oldest / the newest pending Transaction whatever
\* the id of the frame
PopLowest(m, id) ==
    IF DOMAIN m = {} THEN id
    ELSE CHOOSE k \in DOMAIN m : \A j \in DOMAIN m : k <= j
PopHighest(m, id) ==
    IF DOMAIN m = {} THEN id
    ELSE CHOOSE k \in DOMAIN m : \A j \in DOMAIN m : k >= j

\* line 503: `"id" in message`
HasId(msg) == msg.kind \notin {"event", "badevent"}

\* mapper.pop(message["id"]), line 506
PopId(m, id) == id

\* lines 503-509: no Transaction has the id of the frame; log and continue
ListenerUnknownId(g) ==
    /\ Listening(g)
    /\ inbox[W(g)] # <<>>
    /\ HasId(Head(inbox[W(g)]))
    /\ mapLock = 0
    /\ PopId(mapper, Head(inbox[W(g)]).id) \notin DOMAIN mapper
    /\ inbox' = [inbox EXCEPT ![W(g)] = Tail(@)]
    /\ mapLock' = 0
    /\ warned' = warned + 1
    /\ stack' = Loop(g)
    /\ running' = Turn(g)
    /\ UNCHANGED <<held, pend, auxVars, connVars, lockVars, mapper, count, txs, regVars, sent,
                   awaiting, exc, ret, curop, redo, ndisc, ops,
                   regOps>>

\* lines 503-511: pop the Transaction of the frame's id and call it
ListenerReply(g) ==
    /\ Listening(g)
    /\ inbox[W(g)] # <<>>
    /\ HasId(Head(inbox[W(g)]))
    /\ mapLock = 0
    /\ PopId(mapper, Head(inbox[W(g)]).id) \in DOMAIN mapper
    /\ LET id == PopId(mapper, Head(inbox[W(g)]).id)
           r == Transaction_call(txs[mapper[id]], Head(inbox[W(g)]))
       IN /\ r.raised = "none"
          /\ txs' = [txs EXCEPT ![mapper[id]] = r.tx]
          /\ mapper' = MapDel(mapper, id)
    /\ inbox' = [inbox EXCEPT ![W(g)] = Tail(@)]
    /\ mapLock' = 0
    /\ LET tx == txs[mapper[PopId(mapper, Head(inbox[W(g)]).id)]] IN
        held' = IF tx.st = "pending" /\ tx.mth = "enable"
                   /\ Head(inbox[W(g)]).kind = "result" /\ W(g) = websocket
                THEN [held EXCEPT ![tx.dom] = tx.dom \in Implied(handlers)]
                ELSE held
    /\ stack' = Loop(g)
    /\ running' = Turn(g)
    /\ UNCHANGED <<pend, auxVars, connVars, lockVars, count, regVars, sent, awaiting,
                   exc, ret, callVars, regOps>>

\* line 510 raises (line 134): nothing in _listener catches it, the task
\* ends with the exception
ListenerReplyRaises(g) ==
    /\ Listening(g)
    /\ inbox[W(g)] # <<>>
    /\ HasId(Head(inbox[W(g)]))
    /\ mapLock = 0
    /\ PopId(mapper, Head(inbox[W(g)]).id) \in DOMAIN mapper
    /\ LET id == PopId(mapper, Head(inbox[W(g)]).id)
           r == Transaction_call(txs[mapper[id]], Head(inbox[W(g)]))
       IN /\ r.raised # "none"
          /\ txs' = [txs EXCEPT ![mapper[id]] = r.tx]
          /\ mapper' = MapDel(mapper, id)
          /\ lst' = [lst EXCEPT ![g] = r.raised]
    /\ inbox' = [inbox EXCEPT ![W(g)] = Tail(@)]
    /\ UNCHANGED awaiting
    /\ mapLock' = 0
    /\ stack' = [stack EXCEPT ![Lid(g)] = <<>>]
    /\ UNCHANGED <<held, pend, auxVars, websocket, close_code, nconn, listener_task, cancelReq,
                   lockVars, count, regVars, sent, exc, ret, running,
                   callVars, regOps>>

\* lines 489-494: recv raises ConnectionClosed(OK); call disconnect
ListenerClosed(g) ==
    /\ Listening(g)
    /\ inbox[W(g)] = <<>>
    /\ close_code[W(g)]
    /\ stack' = Invoke(Lid(g), "l_break", Frame("disconnect", "lock"))
    /\ running' = Lid(g)
    /\ UNCHANGED <<held, pend, auxVars, connVars, lockVars, txVars, regVars, wireVars, exc, ret,
                   callVars, regOps>>

\* `break`: the task ends, or ends with what disconnect raised
ListenerBreak(g) ==
    /\ running = Lid(g) /\ At(Lid(g), "listener", "l_break")
    /\ lst' = [lst EXCEPT ![g] = IF exc[Lid(g)] = "none" THEN "done"
                                 ELSE exc[Lid(g)]]
    /\ exc' = [exc EXCEPT ![Lid(g)] = "none"]
    /\ stack' = [stack EXCEPT ![Lid(g)] = <<>>]
    /\ UNCHANGED <<inbox, awaiting>>
    /\ running' = 0
    /\ UNCHANGED <<held, pend, auxVars, websocket, close_code, nconn, listener_task, cancelReq,
                   lockVars, txVars, regVars, sent, ret, callVars, regOps>>

\* the CancelledError of cancel() is thrown into the suspended listener:
\* before its first turn, at recv, or in the queue of the connection lock
ListenerCancelled(g) ==
    /\ running = 0
    /\ lst[g] = "run" /\ cancelReq[g]
    /\ Depth(Lid(g)) > 0 /\ Top(Lid(g)).pc \in {"l_start", "l_recv", "lockwait"}
    /\ lst' = [lst EXCEPT ![g] = "cancelled"]
    /\ cancelReq' = [cancelReq EXCEPT ![g] = FALSE]
    /\ stack' = [stack EXCEPT ![Lid(g)] = <<>>]
    /\ IF connLock = Lid(g)
       THEN Release
       ELSE /\ connWait' = SelectSeq(connWait, LAMBDA u : u # Lid(g))
            /\ connLock' = connLock
    /\ UNCHANGED <<inbox, awaiting>>
    /\ UNCHANGED <<held, pend, auxVars, websocket, close_code, nconn, listener_task, txVars,
                   regVars, sent, exc, ret, running, callVars, regOps>>

\* --------------------------------------------------------------- peer
ReplyKinds == {"result", "error", "badresult"}
\* the generator of an enable command reads no key of the result, so no
\* result is malformed for it
KindsFor(id) ==
    IF \E i \in 1..Len(sent) : sent[i].id = id /\ sent[i].mth = "enable"
    THEN {"result", "error"} ELSE ReplyKinds

\* The peer's frames and the closing of a websocket reach the Connection
\* through the event loop, between two turns of the tasks.
\* the peer answers a request it received on websocket g
PeerReply(g, id, kind) ==
    /\ running = 0
    /\ [ws |-> g, id |-> id] \in awaiting
    /\ Heard(g)
    /\ kind \in KindsFor(id)
    /\ ~close_code[g]
    /\ Len(inbox[g]) < MaxInbox
    /\ inbox' = [inbox EXCEPT ![g] =
                    Append(@, [id |-> id, kind |-> kind, val |-> id, ev |-> ""])]
    /\ awaiting' = awaiting \ {[ws |-> g, id |-> id]}
    /\ UNCHANGED <<held, pend, auxVars, connVars, lockVars, txVars, regVars, sent, stack, exc, ret,
                   running, callVars, regOps>>

\* the peer sends a frame whose id answers no request
PeerUnknown(g) ==
    /\ running = 0
    /\ g <= nconn /\ ~close_code[g] /\ Heard(g)
    /\ Len(inbox[g]) < MaxInbox
    /\ ops < MaxOps /\ Within
    /\ ops' = ops + 1
    /\ inbox' = [inbox EXCEPT ![g] =
          Append(@, [id |-> UnknownId, kind |-> "result",
                     val |-> UnknownId, ev |-> ""])]
    /\ UNCHANGED <<held, pend, auxVars, connVars, lockVars, txVars, regVars, sent, awaiting, stack,
                   exc, ret, running, curop, redo, ndisc, warned, regOps>>

\* the peer closes websocket g
PeerClose(g) ==
    /\ running = 0
    /\ g <= nconn /\ ~close_code[g]
    /\ ops < MaxOps /\ Within
    /\ ops' = ops + 1
    /\ close_code' = [close_code EXCEPT ![g] = TRUE]
    /\ held' = IF g = websocket THEN [d \in Domains |-> FALSE] ELSE held
    /\ UNCHANGED <<pend, auxVars, websocket, nconn, listener_task, lst, cancelReq, lockVars,
                   txVars, regVars, wireVars, stack, exc, ret, running,
                   curop, redo, ndisc, warned, regOps>>

\* A thread takes the next block of its call c: at any time, also in the
\* middle of a turn of a task, whose steps hold the lock for one block.
Block(th, c) ==
    /\ handlers' = Section(c, handlers)
    /\ pend' = [pend EXCEPT ![th] = IF Returned(After(c)) THEN NoCallIn
                                    ELSE After(c)]
    /\ stack' = Touch(stack, 0, 0)
    /\ held' = [d \in Domains |-> held[d] /\ d \in Implied(handlers')]

\* add_handler is called and takes its first block
AddHandlerWithin(targets, cb, max) ==
    /\ regOps < max
    /\ regOps' = regOps + 1
    /\ \E th \in Threads : Caller(th) /\ Block(th, Called("add", targets, cb))
    /\ UNCHANGED <<auxVars, connVars, lockVars, txVars, enabled_domains, wireVars, exc,
                   ret, running, curop, redo, ndisc, warned, ops>>

\* remove_handler is called and takes its first block
RemoveHandlerWithin(targets, cb, max) ==
    /\ regOps < max
    /\ regOps' = regOps + 1
    /\ \E th \in Threads :
          Caller(th) /\ Block(th, Called("remove", targets, cb))
    /\ UNCHANGED <<auxVars, connVars, lockVars, txVars, enabled_domains, wireVars, exc,
                   ret, running, curop, redo, ndisc, warned, ops>>

\* a call in progress takes its next block
HandlersLocked(th) ==
    /\ pend[th] # NoCallIn
    /\ Block(th, pend[th])
    /\ UNCHANGED <<auxVars, connVars, lockVars, txVars, enabled_domains, wireVars, exc,
                   ret, running, callVars, regOps>>

AddHandler(targets, cb) == Within /\ AddHandlerWithin(targets, cb, MaxRegOps)
RemoveHandler(targets, cb) ==
    Within /\ RemoveHandlerWithin(targets, cb, MaxRegOps)

\* ------------------------------------------------------ specification
Next ==
    \/ \E t \in Callers : StartConnect(t) \/ StartSend(t) \/ StartDisconnect(t)
                            \/ OpDone(t)
    \/ \E t \in Tasks :
          \/ LockAcquire(t) \/ LockBlock(t) \/ LockWake(t)
          \/ DisconnectNoListener(t) \/ DisconnectCancel(t)
          \/ DisconnectListenerFinished(t) \/ DisconnectAwaited(t)
          \/ DisconnectSelfAwait(t) \/ DisconnectClose(t)
          \/ DisconnectNoSocket(t) \/ DisconnectClosed(t) \/ DisconnectExit(t)
    \/ \E t \in Callers :
          \/ ConnectEnter(t) \/ ConnectExit(t)
          \/ CuAlreadyOpen(t) \/ CuBeginOpen(t) \/ CuOpened(t)
          \/ CuOpenFailed(t) \/ CuReturn(t)
          \/ RhSnapshot(t) \/ RhSkip(t) \/ RhSeen(t) \/ RhAlwaysOn(t)
          \/ RhEnable(t) \/ RhSendOk(t) \/ RhSendFailed(t) \/ RhFinal(t)
          \/ RhReturn(t)
          \/ SendEnter(t) \/ SendUnlock(t) \/ SendRegister(t)
          \/ SendAssign(t) \/ SendTransmit(t) \/ SendTransmitClosed(t)
          \/ SendDrained(t) \/ SendResume(t)
    \/ \E g \in Gens :
          \/ ListenerRecv(g) \/ ListenerRecvBusy(g)
          \/ ListenerUnknownId(g) \/ ListenerReply(g) \/ ListenerReplyRaises(g)
          \/ ListenerClosed(g) \/ ListenerBreak(g) \/ ListenerCancelled(g)
          \/ PeerUnknown(g) \/ PeerClose(g)
          \/ \E id \in 0..(count - 1), kind \in ReplyKinds :
                PeerReply(g, id, kind)
    \/ \E x \in Targets :
          \/ AddHandler(x, "h1")
          \/ \E cb \in {"h1", NoHandler} : RemoveHandler(x, cb)
    \/ \E th \in Threads : HandlersLocked(th)

Spec == Init /\ [][Next]_vars

\* ============================================ Transaction on its own
\* Transactions are made and called with any reply, any number of times.
MaxTx == 2
ReplyVals == {1, 2, 3}

\* Transaction(cdp_obj), lines 82-92
TxNew ==
    /\ Len(txs) < MaxTx
    /\ txs' = Append(txs, Transaction([mth |-> "cmd", dom |-> ""]))
    /\ UNCHANGED <<held, pend, connVars, lockVars, mapLock, mapper, count, regVars,
                   wireVars, stack, exc, ret, running, callVars, regOps,
                   lastreg, lastcall, calls, htasks, nev, lastsnap>>

\* tx(**message), lines 110-141
TxCall(i, kind, val) ==
    /\ i \in 1..Len(txs)
    /\ LET r == Transaction_call(txs[i], [id |-> txs[i].id, kind |-> kind,
                                          val |-> val, ev |-> ""])
       IN /\ txs' = [txs EXCEPT ![i] = r.tx]
          /\ lastcall' = [i |-> i, before |-> txs[i], kind |-> kind,
                          val |-> val, raised |-> r.raised]
    /\ UNCHANGED <<held, pend, connVars, lockVars, mapLock, mapper, count, regVars,
                   wireVars, stack, exc, ret, running, callVars, regOps,
                   lastreg, calls, htasks, nev, lastsnap>>

TxNext ==
    \/ TxNew
    \/ \E i \in 1..MaxTx, kind \in ReplyKinds, val \in ReplyVals :
          TxCall(i, kind, val)

TxSpec == Init /\ [][TxNext]_vars

\* ============================================== the registry on its own
\* add_handler and remove_handler called by two threads with single
\* targets and with lists of targets, on a Connection that is not connected.
MaxRegCalls == 2
Singles == Domains \cup EventTypes
RegTargets ==
    {<<x>> : x \in Singles} \cup {<<x, y>> : x \in Singles, y \in Singles}

\* Thread th takes the next block of its call c.  lastreg.open[th] is what
\* the call found when it began and whether a block of another thread has
\* come between its blocks; lastreg is the call that has returned last,
\* with the registry it left.
RegBlock(th, c, o) ==
    LET alone == o.alone /\ \A u \in Threads \ {th} : pend[u] = NoCallIn
        mine == [o EXCEPT !.alone = alone]
        done == Returned(After(c))
        open == [u \in Threads |->
                   IF u = th THEN IF done THEN NoOpen ELSE mine
                   ELSE IF pend[u] = NoCallIn THEN NoOpen
                   ELSE [lastreg.open[u] EXCEPT !.alone = FALSE]]
    IN /\ handlers' = Section(c, handlers)
       /\ pend' = [pend EXCEPT ![th] = IF done THEN NoCallIn ELSE After(c)]
       /\ lastreg' = IF done
                     THEN [op |-> c.op, targets |-> o.targets, cb |-> c.cb,
                           before |-> o.before, after |-> handlers',
                           alone |-> alone, open |-> open]
                     ELSE [lastreg EXCEPT !.open = open]

RegAdd(targets, cb) ==
    /\ regOps < MaxRegCalls
    /\ regOps' = regOps + 1
    /\ \E th \in Threads :
          /\ Caller(th)
          /\ RegBlock(th, Called("add", targets, cb),
                      [targets |-> targets, before |-> handlers,
                       alone |-> TRUE])
    /\ UNCHANGED <<held, connVars, lockVars, txVars, enabled_domains, wireVars,
                   stack, exc, ret, running, callVars,
                   lastcall, calls, htasks, nev, lastsnap>>

RegRemove(targets, cb) ==
    /\ regOps < MaxRegCalls
    /\ regOps' = regOps + 1
    /\ \E th \in Threads :
          /\ Caller(th)
          /\ RegBlock(th, Called("remove", targets, cb),
                      [targets |-> targets, before |-> handlers,
                       alone |-> TRUE])
    /\ UNCHANGED <<held, connVars, lockVars, txVars, enabled_domains, wireVars,
                   stack, exc, ret, running, callVars,
                   lastcall, calls, htasks, nev, lastsnap>>

RegLocked(th) ==
    /\ pend[th] # NoCallIn
    /\ RegBlock(th, pend[th], lastreg.open[th])
    /\ UNCHANGED <<held, connVars, lockVars, txVars, enabled_domains, wireVars,
                   stack, exc, ret, running, callVars, regOps,
                   lastcall, calls, htasks, nev, lastsnap>>

RegNext ==
    \/ \E targets \in RegTargets :
          \/ \E cb \in Callbacks : RegAdd(targets, cb)
          \/ \E cb \in Callbacks \cup {NoHandler} : RegRemove(targets, cb)
    \/ \E th \in Threads : RegLocked(th)

RegSpec == Init /\ [][RegNext]_vars

\* ======================================================= event dispatch
\* What a callback is: a plain or a coroutine function, the numbers of
\* positional arguments it takes, and what its body raises.
MaxEvents == 2
MaxQueued == 2       \* event frames received and not yet read
\* out: what the body raises ("BaseException": an exception of a class
\* derived from BaseException and not from Exception, other than
\* asyncio.CancelledError, which is no Exception either)
\* does: what the body does to the registry of its connection, for the
\* type of the event it is given: add_handler(type, s2ok) or
\* remove_handler(type, s2ok); such a body returns
Sig ==
    [s2ok   |-> [async |-> FALSE, argc |-> {2},    out |-> "none", does |-> "none"],
     s2exc  |-> [async |-> FALSE, argc |-> {2},    out |-> "Exception", does |-> "none"],
     s1ok   |-> [async |-> FALSE, argc |-> {1},    out |-> "none", does |-> "none"],
     s1exc  |-> [async |-> FALSE, argc |-> {1},    out |-> "Exception", does |-> "none"],
     s2base |-> [async |-> FALSE, argc |-> {2},    out |-> "BaseException", does |-> "none"],
     s2canc |-> [async |-> FALSE, argc |-> {2},    out |-> "CancelledError", does |-> "none"],
     s2type |-> [async |-> FALSE, argc |-> {2},    out |-> "TypeError", does |-> "none"],
     sNtype |-> [async |-> FALSE, argc |-> {1, 2}, out |-> "TypeError", does |-> "none"],
     a2ok   |-> [async |-> TRUE,  argc |-> {2},    out |-> "none", does |-> "none"],
     a2exc  |-> [async |-> TRUE,  argc |-> {2},    out |-> "Exception", does |-> "none"],
     a1exc  |-> [async |-> TRUE,  argc |-> {1},    out |-> "Exception", does |-> "none"],
     sAdd   |-> [async |-> FALSE, argc |-> {2},    out |-> "none", does |-> "add"],
     sDel   |-> [async |-> FALSE, argc |-> {2},    out |-> "none", does |-> "remove"]]
EventCallbacks == DOMAIN Sig

\* lines 536-549 for one callback: the forms in which its body is run at
\* once (runs), the form of the task created for it (tasks), and what
\* reaches line 550
Invocation(cb) ==
    LET c == Sig[cb] IN
    IF c.async
    THEN IF 2 \in c.argc
         THEN [runs |-> <<>>, tasks |-> <<2>>, raised |-> "none"]
         ELSE IF 1 \in c.argc
         THEN [runs |-> <<>>, tasks |-> <<1>>, raised |-> "none"]
         ELSE [runs |-> <<>>, tasks |-> <<>>, raised |-> "TypeError"]
    ELSE IF 2 \in c.argc
         THEN IF c.out # "TypeError"
              THEN [runs |-> <<2>>, tasks |-> <<>>, raised |-> c.out]
              ELSE IF 1 \in c.argc
              THEN [runs |-> <<2, 1>>, tasks |-> <<>>, raised |-> c.out]
              ELSE [runs |-> <<2>>, tasks |-> <<>>, raised |-> "TypeError"]
         ELSE IF 1 \in c.argc
         THEN [runs |-> <<1>>, tasks |-> <<>>, raised |-> c.out]
         ELSE [runs |-> <<>>, tasks |-> <<>>, raised |-> "TypeError"]

\* the registry call the body of callback cb makes, given an event of
\* type e
BodyCall(cb, e) ==
    IF Sig[cb].does = "add" THEN Called("add", <<e>>, "s2ok")
    ELSE IF Sig[cb].does = "remove" THEN Called("remove", <<e>>, "s2ok")
    ELSE NoCallIn

\* a loop over the list in the registry itself, by position
LiveRest(snap, live, k) ==
    IF k < Len(live) THEN SubSeq(live, k + 1, Len(live)) ELSE <<>>

\* line 534: `for callback in callbacks` goes through the copy of line 529
Rest(snap, live, k) == Tail(snap)

\* the classes of what a callback raises that derive from Exception
Exceptions == {"Exception", "TypeError"}

\* lines 550-557: `except Exception` logs an Exception and the loop goes
\* on; what is no Exception passes it, and passes line 560 too
Handled(e) == IF e \in Exceptions THEN "none" ELSE e

\* lines 560-561: how the listener task ends when exception e leaves
\* _listener: a task whose coroutine raises CancelledError is a cancelled
\* task and holds no exception; any other exception is the task's exception
EndsWith(e) == IF e = "CancelledError" THEN "cancelled" ELSE e

\* the peer sends an event of type e
PeerEvent(g, e) ==
    /\ running = 0
    /\ g <= nconn /\ ~close_code[g] /\ Heard(g)
    /\ Len(inbox[g]) < MaxQueued
    /\ nev < MaxEvents
    /\ nev' = nev + 1
    /\ inbox' = [inbox EXCEPT ![g] =
          Append(@, [id |-> -1, kind |-> "event", val |-> nev + 1, ev |-> e])]
    /\ UNCHANGED <<held, pend, connVars, lockVars, txVars, regVars, sent, awaiting, stack,
                   exc, ret, running, callVars, regOps,
                   lastreg, lastcall, calls, htasks, lastsnap>>

\* the peer sends an event that parse_json_event cannot parse
PeerBadEvent(g) ==
    /\ running = 0
    /\ g <= nconn /\ ~close_code[g] /\ Heard(g)
    /\ Len(inbox[g]) < MaxQueued
    /\ nev < MaxEvents
    /\ nev' = nev + 1
    /\ inbox' = [inbox EXCEPT ![g] =
          Append(@, [id |-> -1, kind |-> "badevent", val |-> nev + 1,
                     ev |-> ""])]
    /\ UNCHANGED <<held, pend, connVars, lockVars, txVars, regVars, sent, awaiting, stack,
                   exc, ret, running, callVars, regOps,
                   lastreg, lastcall, calls, htasks, lastsnap>>

\* lines 514-525: the event does not parse; log and continue
ListenerEventUnparsed(g) ==
    /\ Listening(g)
    /\ inbox[W(g)] # <<>>
    /\ Head(inbox[W(g)]).kind = "badevent"
    /\ inbox' = [inbox EXCEPT ![W(g)] = Tail(@)]
    /\ stack' = Loop(g)
    /\ running' = Turn(g)
    /\ UNCHANGED <<held, pend, connVars, lockVars, txVars, regVars, sent, awaiting,
                   exc, ret, callVars, regOps, auxVars>>

\* line 529: list(self.handlers[type(event)]), or [] (line 531)
Snapshot(h, e) == IF HasKey(h, e) THEN Get(h, e) ELSE <<>>

\* lines 527-533: no callback for the type of the event; continue
ListenerEventNoCallbacks(g) ==
    /\ Listening(g)
    /\ inbox[W(g)] # <<>>
    /\ Head(inbox[W(g)]).kind = "event"
    /\ Snapshot(handlers, Head(inbox[W(g)]).ev) = <<>>
    /\ inbox' = [inbox EXCEPT ![W(g)] = Tail(@)]
    /\ stack' = Loop(g)
    /\ running' = Turn(g)
    /\ UNCHANGED <<held, pend, connVars, lockVars, txVars, regVars, sent, awaiting,
                   exc, ret, callVars, regOps, auxVars>>

\* lines 527-534: snapshot the callbacks of the type and start on them
ListenerEvent(g) ==
    /\ Listening(g)
    /\ inbox[W(g)] # <<>>
    /\ Head(inbox[W(g)]).kind = "event"
    /\ Snapshot(handlers, Head(inbox[W(g)]).ev) # <<>>
    /\ LET cbs == Snapshot(handlers, Head(inbox[W(g)]).ev) IN
        /\ lastsnap' = [n |-> Head(inbox[W(g)]).val, cbs |-> cbs,
                        ev |-> Head(inbox[W(g)]).ev]
        /\ stack' = SetTop(Lid(g), [Top(Lid(g)) EXCEPT !.pc = "l_dispatch",
                                                      !.snap = cbs,
                                                      !.k = 0])
    /\ inbox' = [inbox EXCEPT ![W(g)] = Tail(@)]
    /\ running' = Lid(g)
    /\ UNCHANGED <<held, pend, connVars, lockVars, txVars, regVars, sent, awaiting,
                   exc, ret, callVars, regOps,
                   lastreg, lastcall, calls, htasks, nev>>

\* the entries one callback adds to the log and to the tasks
RunsOf(cb, n, forms, how) ==
    [i \in 1..Len(forms) |-> [cb |-> cb, n |-> n, argc |-> forms[i],
                              how |-> how]]

\* lines 534-557: the loop takes the next callback of the snapshot and
\* calls it.  The body of a synchronous callback runs here, once for each
\* form it is called in; a body that calls the registry runs as far as
\* the end of the first `with self._handlers_lock:` block of that call.
ListenerCallback(g) ==
    /\ running = Lid(g) /\ At(Lid(g), "listener", "l_dispatch")
    /\ Top(Lid(g)).snap # <<>>
    /\ LET cb == Head(Top(Lid(g)).snap)
           r == Invocation(cb)
           c == IF Len(r.runs) > 0 THEN BodyCall(cb, lastsnap.ev)
                ELSE NoCallIn
           h == IF c = NoCallIn THEN handlers ELSE Section(c, handlers)
           left == IF c = NoCallIn \/ Returned(After(c)) THEN NoCallIn
                   ELSE After(c)
           st == SetTop(Lid(g),
                    [Top(Lid(g)) EXCEPT
                        !.pc = IF left = NoCallIn THEN "l_dispatch"
                               ELSE "l_body",
                        !.snap = Rest(@, Get(handlers, lastsnap.ev),
                                      Top(Lid(g)).k + 1),
                        !.k = @ + 1])
       IN /\ calls' = calls \o RunsOf(cb, lastsnap.n, r.runs, "sync")
                            \o RunsOf(cb, lastsnap.n, r.tasks, "task")
          /\ htasks' = htasks \o RunsOf(cb, lastsnap.n, r.tasks, "body")
          /\ handlers' = h
          /\ pend' = [pend EXCEPT ![LoopThread] = left]
          /\ held' = [d \in Domains |-> held[d] /\ d \in Implied(h)]
          /\ IF Handled(r.raised) = "none"
             THEN /\ stack' = IF c = NoCallIn THEN st ELSE Touch(st, 0, 0)
                  /\ UNCHANGED <<lst, running>>
             ELSE \* lines 560-561: the exception leaves _listener
                  /\ lst' = [lst EXCEPT ![g] = EndsWith(Handled(r.raised))]
                  /\ stack' = [stack EXCEPT ![Lid(g)] = <<>>]
                  /\ running' = 0
    /\ UNCHANGED <<websocket, close_code, nconn, listener_task, cancelReq,
                   lockVars, txVars, enabled_domains, wireVars, exc, ret,
                   callVars, regOps, lastreg, lastcall, nev, lastsnap>>

\* the body of the callback takes the next `with self._handlers_lock:`
\* block of its registry call (lines 342-344 after lines 315-318); after
\* the last one it returns to the loop of line 534
ListenerCallbackBody(g) ==
    /\ running = Lid(g) /\ At(Lid(g), "listener", "l_body")
    /\ LET c == pend[LoopThread]
           left == IF Returned(After(c)) THEN NoCallIn ELSE After(c)
       IN /\ handlers' = Section(c, handlers)
          /\ pend' = [pend EXCEPT ![LoopThread] = left]
          /\ stack' = Touch(IF left = NoCallIn THEN Goto(Lid(g), "l_dispatch")
                            ELSE stack, 0, 0)
    /\ held' = [d \in Domains |-> held[d] /\ d \in Implied(handlers')]
    /\ UNCHANGED <<auxVars, connVars, lockVars, txVars, enabled_domains,
                   wireVars, exc, ret, running, callVars, regOps>>

\* the snapshot is done: back to line 486
ListenerDispatched(g) ==
    /\ running = Lid(g) /\ At(Lid(g), "listener", "l_dispatch")
    /\ Top(Lid(g)).snap = <<>>
    /\ stack' = Loop(g)
    /\ running' = Turn(g)
    /\ UNCHANGED <<held, pend, connVars, lockVars, txVars, regVars, wireVars, exc, ret,
                   callVars, regOps, auxVars>>

\* a handler task runs; _handle_handler_task_result, lines 403-414, logs
\* what it raised
HandlerTask ==
    /\ running = 0
    /\ htasks # <<>>
    /\ calls' = Append(calls, Head(htasks))
    /\ htasks' = Tail(htasks)
    /\ UNCHANGED <<held, pend, connVars, lockVars, txVars, regVars, wireVars, stack, exc,
                   ret, running, callVars, regOps,
                   lastreg, lastcall, nev, lastsnap>>

\* connect(), registrations and events in any order: every callback is
\* registered for an event type, and two of them for a namespace of two
\* event types as well.  The pass of connect() runs under the connection
\* lock (line 361): the send() of its first enable command (line 458)
\* queues up for that lock (LockBlock) and is never resumed, so that the
\* pass has no step after RhEnable, and send() none after the lock, while
\* the listener goes on dispatching.
EventTargets == {<<"target.A">>}
NamespaceCallbacks == {"s2ok", "sDel"}
DispatchNext ==
    \/ \E t \in Callers : StartConnect(t) \/ OpDone(t)
    \/ \E t \in Callers :
          \/ LockAcquire(t) \/ LockBlock(t) \/ LockWake(t)
          \/ ConnectEnter(t) \/ ConnectExit(t)
          \/ CuAlreadyOpen(t) \/ CuBeginOpen(t) \/ CuOpened(t) \/ CuReturn(t)
          \/ RhSnapshot(t) \/ RhAlwaysOn(t) \/ RhEnable(t)
          \/ RhFinal(t) \/ RhReturn(t)
    \/ \E x \in EventTargets, cb \in EventCallbacks : AddHandler(x, cb)
    \/ \E cb \in NamespaceCallbacks : AddHandler(<<"network">>, cb)
    \/ \E g \in Gens :
          \/ PeerBadEvent(g)
          \/ \E e \in EventTypes : PeerEvent(g, e)
          \/ ListenerRecv(g)
          \/ ListenerEventUnparsed(g) \/ ListenerEventNoCallbacks(g)
          \/ ListenerEvent(g) \/ ListenerCallback(g)
          \/ ListenerCallbackBody(g) \/ ListenerDispatched(g)
    \/ HandlerTask

DispatchSpec == Init /\ [][DispatchNext]_vars

\* ------------------------------------------- one caller, a busy registry
\* One task connects and sends while handlers of the event types of two
\* namespaces are added and removed, one event type at a time.
MaxSwapOps == 3
MaxSwapRegOps == 3
SwapTargets == {<<"page.A">>, <<"network.A">>, <<"network.B">>}
SwapNext ==
    \/ \E op \in {"connect", "send"} : Start(1, op, MaxSwapOps)
    \/ OpDone(1)
    \/ LockAcquire(1) \/ LockBlock(1)
    \/ ConnectEnter(1) \/ ConnectExit(1)
    \/ CuAlreadyOpen(1) \/ CuBeginOpen(1) \/ CuOpened(1) \/ CuReturn(1)
    \/ RhSnapshot(1) \/ RhSkip(1) \/ RhSeen(1)
    \/ RhEnable(1) \/ RhSendOk(1) \/ RhSendFailed(1) \/ RhFinal(1)
    \/ RhReturn(1)
    \/ SendEnter(1) \/ SendUnlock(1) \/ SendRegister(1)
    \/ SendAssign(1) \/ SendTransmit(1) \/ SendDrained(1) \/ SendResume(1)
    \/ ListenerRecv(1) \/ ListenerReply(1)
    \/ \E id \in 0..(count - 1), kind \in {"result", "error"} :
          PeerReply(1, id, kind)
    \/ \E x \in SwapTargets :
          \/ AddHandlerWithin(x, "h1", MaxSwapRegOps)
          \/ RemoveHandlerWithin(x, NoHandler, MaxSwapRegOps)

SwapSpec == Init /\ [][SwapNext]_vars

\* ============================================================== claims
PassDone(t) == At(t, "register_handlers", "rh_done")
Sends(t) == Returning(t) /\ curop[t] = "send" /\ ret[t].txi # 0

\* C1: a send() returns or raises only the outcome of the reply frame that
\* bore the id of its own Transaction (every frame's payload is tagged
\* with the id the peer put on the frame).
C1_Correlated ==
    \A t \in Callers :
        Sends(t) => /\ ret[t].st \in {"resolved", "rejected"}
                    /\ ret[t].val = txs[ret[t].txi].id
                    /\ (exc[t] = "none") = (ret[t].st = "resolved")

\* two commands were in flight and the later one was answered, and taken by
\* its caller, before the earlier one's caller got its result
C1_Witness ==
    \E t \in Callers :
        /\ Sends(t)
        /\ \E k \in 1..Len(txs) :
              /\ txs[k].mth = "cmd" /\ txs[k].st = "gone"
              /\ txs[k].id > txs[ret[t].txi].id

\* C2 (as claimed): the pass that connect() or the connect of send() runs
\* after opening a websocket, holding the connection lock, gets its enable
\* command sent and returns.  It cannot once the task waits for the lock
\* it holds itself: no such state may be reached.
C2_ConnectPassReturns ==
    \A t \in Tasks : ~(connLock = t /\ Contains(connWait, t))

\* C3 (as claimed): in the state in which a pass ends, the subscribed
\* namespaces are exactly the namespaces with handlers and the always-on
\* ones.  Line 447 keeps target and storage out of enabled_domains, as
\* enabled by default, so they are counted as subscribed here: the claim as
\* worded (enabled_domains itself is that union) implies this statement.
C3_EnabledIsImpliedAfterPass ==
    [][\A t \in Tasks :
          (~PassDone(t) /\ PassDone(t)')
             => Range(enabled_domains') \cup AlwaysOn
                   = Implied(handlers') \cup AlwaysOn]_vars

\* What does hold at the end of a pass: target and storage are never in
\* enabled_domains, and after a pass none of whose enable commands failed,
\* and during which nothing else changed the registry or enabled_domains,
\* enabled_domains is exactly the namespaces with handlers that are not
\* always-on.
UndisturbedPassReconciles ==
    /\ Range(enabled_domains) \cap AlwaysOn = {}
    /\ \A t \in Tasks :
          PassDone(t) /\ Top(t).clean
             => Range(enabled_domains) = Implied(handlers) \ AlwaysOn

\* C4: ids are assigned in strictly increasing order; none is assigned
\* twice (txs is in order of assignment).
C4_IdsIncrease ==
    \A i, j \in 1..Len(txs) : i < j => txs[i].id < txs[j].id

\* ids were assigned on a first websocket and again after a reconnect
C4_Witness ==
    \E i, j \in 1..Len(sent) : sent[i].ws = 1 /\ sent[j].ws = 2

\* C7: when the listener reads a frame whose id is not in the table, the
\* table and every Transaction stay as they are, the table lock is free
\* again, and the listener is still running, on its way round the loop.
C7_UnknownIdDropped ==
    [][\A g \in Gens :
          (/\ Listening(g) /\ inbox[W(g)] # <<>>
           /\ HasId(Head(inbox[W(g)]))
           /\ Head(inbox[W(g)]).id \notin DOMAIN mapper
           /\ inbox'[W(g)] # inbox[W(g)])
          => /\ mapper' = mapper /\ txs' = txs
             /\ mapLock' = 0
             /\ lst'[g] = "run" /\ stack'[Lid(g)] = Loop(g)[Lid(g)]]_vars

\* such a frame was dropped while a Transaction was pending, and the
\* listener goes on
C7_Witness ==
    /\ warned > 0
    /\ \E g \in Gens : lst[g] = "run" /\ At(Lid(g), "listener", "l_recv")
    /\ \E i \in DOMAIN mapper : txs[mapper[i]].st = "pending"

\* C8 (as claimed): a disconnect() on a connection never connected, or
\* following a disconnect(), returns without raising, with the lock
\* released, the connection closed and enabled_domains empty.
C8_DisconnectIdempotent ==
    \A t \in Callers :
        (Returning(t) /\ curop[t] = "disconnect" /\ redo[t] = "again")
            => /\ exc[t] = "none"
               /\ connLock # t
               /\ closed
               /\ enabled_domains = <<>>

\* C9 (as claimed): one pass transmits at most one enable command for a
\* namespace.
NoDup(s) == \A i, j \in 1..Len(s) : i # j => s[i] # s[j]
C9_OneEnablePerPass ==
    \A t \in Tasks : \A i \in 1..Depth(t) :
        stack[t][i].fn = "register_handlers" => NoDup(stack[t][i].en)

\* C5: a call of a Transaction that is already resolved or rejected
\* leaves its state and its value or error as they were, and raises
\* nothing, whatever the reply it is called with.
C5_SettledOnce ==
    (lastcall.i # 0 /\ lastcall.before.st # "pending")
        => /\ txs[lastcall.i] = lastcall.before
           /\ lastcall.raised = "none"

\* a resolved Transaction has been called with an error reply, or with a
\* result of another value, or with a result that does not decode
C5_Witness ==
    /\ lastcall.i # 0
    /\ lastcall.before.st = "resolved"
    /\ \/ lastcall.kind = "error"
       \/ lastcall.kind = "badresult"
       \/ lastcall.val # lastcall.before.val

\* C6 (as claimed): when the listener is back at recv after an event
\* frame, every callback of the snapshot taken for the frame has been run
\* or given a task, whatever the callbacks before it raised; and no
\* listener has ended with an exception, whatever a callback or a handler
\* task raised.
C6_RaisingCallbackIsolated ==
    \A g \in Gens :
        /\ ~Failed(g)
        /\ (lst[g] = "run" /\ At(Lid(g), "listener", "l_recv"))
              => \A i \in 1..Len(lastsnap.cbs) :
                    \E k \in 1..Len(calls) :
                        /\ calls[k].n = lastsnap.n
                        /\ calls[k].cb = lastsnap.cbs[i]
                        /\ calls[k].how \in {"sync", "task"}

\* the event types a target resolves to
Resolved(targets) ==
    UNION {IF targets[i] \in Domains THEN Members(targets[i])
           ELSE {targets[i]} : i \in 1..Len(targets)}

\* C10 (as claimed): after add_handler(target, callback) the callback is
\* at the end of the list of every event type resolved from every element
\* of the target, on top of what the list held, and the other lists are as
\* they were.
C10_AddReachesEveryTarget ==
    (lastreg.op = "add" /\ lastreg.alone) =>
        \A e \in EventTypes :
            LET old == Snapshot(lastreg.before, e)
                new == Snapshot(lastreg.after, e)
            IN IF e \in Resolved(lastreg.targets)
               THEN /\ Len(new) > Len(old)
                    /\ SubSeq(new, 1, Len(old)) = old
                    /\ new[Len(new)] = lastreg.cb
               ELSE new = old

\* C11 (as claimed): after remove_handler(target, callback) with a callback
\* given, the callback is in no list of the registry, and no event type
\* resolved from an element of the target has an entry.
C11_RemoveClearsCallbackAndTargets ==
    (lastreg.op = "remove" /\ lastreg.cb # NoHandler /\ lastreg.alone) =>
        /\ \A i \in 1..Len(lastreg.after) :
              ~Contains(lastreg.after[i].v, lastreg.cb)
        /\ \A e \in Resolved(lastreg.targets) : ~HasKey(lastreg.after, e)

\* C12: no step of a disconnect() changes the pending-request table, a
\* Transaction, the id counter or the handler registry, and none resumes a
\* caller that waits in send() for its Transaction.
C12_DisconnectFrame ==
    [][\A t \in Tasks :
          (/\ Depth(t) > 0 /\ Top(t).fn = "disconnect"
           /\ (running = t \/ running' = t)
           /\ stack'[t] # stack[t])
          => /\ mapper' = mapper /\ txs' = txs /\ count' = count
             /\ handlers' = handlers
             /\ \A u \in Callers :
                   At(u, "send", "s_await")
                      => /\ running' # u
                         /\ Len(stack'[u]) = Len(stack[u])
                         /\ stack'[u][Len(stack[u])] = Top(u)]_vars

\* a disconnect() has closed the websocket and returns while a caller
\* still waits in send() for a Transaction that is pending and in the table
C12_Witness ==
    \E t, u \in Callers :
        /\ Returning(t) /\ curop[t] = "disconnect" /\ exc[t] = "none"
        /\ closed /\ websocket # 0
        /\ At(u, "send", "s_await")
        /\ txs[Top(u).txi].st = "pending"
        /\ txs[Top(u).txi].id \in DOMAIN mapper

\* C13 (as claimed): a reply whose result does not decode rejects its
\* Transaction and leaves the listener running: a Transaction that the
\* listener has taken out of the table is not pending any more, and no
\* listener has ended with the KeyError of the decoding.
C13_BadResultRejects ==
    /\ \A i \in 1..Len(txs) :
          txs[i].id \notin DOMAIN mapper => txs[i].st # "pending"
    /\ \A g \in Gens : lst[g] # "KeyError"

\* some task is inside disconnect()
Disconnecting ==
    \E t \in Tasks : \E i \in 1..Depth(t) : stack[t][i].fn = "disconnect"

\* C14 (as claimed): whenever the websocket is open (and no disconnect()
\* is at work on it), the listener task of the Connection is the listener
\* started for that websocket, and it is running.
C14_OneListenerWhileOpen ==
    (~closed /\ ~Disconnecting) =>
        /\ listener_task = websocket
        /\ lst[websocket] = "run"

\* C15: no enable command is handed to the websocket for a namespace for
\* which an enable command has succeeded on that websocket and which has
\* had handlers ever since.
C15_NoSecondEnable ==
    [][\A d \in Domains :
          (/\ Len(sent') = Len(sent) + 1
           /\ sent'[Len(sent')].mth = "enable"
           /\ sent'[Len(sent')].dom = d)
          => ~held[d]]_vars

\* C16 (as claimed): a pass in which the enable of a namespace failed ends
\* without an exception and with that namespace out of enabled_domains.
C16_RolledBackAtPassEnd ==
    \A t \in Callers :
        PassDone(t) =>
            /\ exc[t] = "none"
            /\ \A d \in Range(Top(t).fl) : ~Contains(enabled_domains, d)

\* the step is a step of task t (and not a block that a thread takes in
\* the middle of the turn of t)
Takes(t) == running = t /\ regOps' = regOps /\ pend' = pend

\* What does hold of a failed enable: when the enable sent by a pass
\* raises, the handler takes the namespace out of enabled_domains and
\* swallows the exception, the pass goes on and ends without an exception,
\* and the command of the send() that ran the pass then gets the next id
\* and a place in the table, and is handed to the websocket if the
\* websocket is still open.
RollbackThenCommand ==
    [][\A t \in Callers :
          /\ (Takes(t) /\ At(t, "register_handlers", "rh_sent")
                /\ exc[t] # "none")
                => /\ ~Contains(enabled_domains', cdp_get_module(NextType(t)))
                   /\ exc'[t] = "none"
                   /\ Depth(t) = Len(stack'[t])
                   /\ stack'[t][Depth(t)].fn = "register_handlers"
          /\ PassDone(t) => exc[t] = "none"
          /\ (Takes(t) /\ At(t, "send", "s_tx") /\ ~Top(t).upd
                /\ Top(t).fl # <<>>)
                => /\ count' = count + 1
                   /\ Len(txs') = Len(txs) + 1
                   /\ txs'[Len(txs')].id = count
                   /\ txs'[Len(txs')].mth = Top(t).mth
                   /\ count \in DOMAIN mapper'
                   /\ mapper'[count] = Len(txs')
                   /\ running' = t /\ At(t, "send", "s_send")'
          /\ (Takes(t) /\ At(t, "send", "s_send") /\ ~closed)
                => sent' = Append(sent, [id |-> txs[Top(t).txi].id,
                                         mth |-> Top(t).mth,
                                         dom |-> Top(t).dom,
                                         ws |-> websocket])]_vars

\* C17: the frames handed to the websockets are in the order of their
\* ids, although the id is taken inside self._lock and the frame is
\* handed over outside it: a task that has taken an id keeps the turn
\* until it has called websocket.send.
C17_SentInIdOrder ==
    /\ \A i, j \in 1..Len(sent) : i < j => sent[i].id < sent[j].id
    /\ \A t \in Callers : At(t, "send", "s_send") => running = t
    /\ \A i \in 1..Len(sent) :
          \A k \in 1..Len(txs) :
              (txs[k].id < sent[i].id /\ ~\E j \in 1..i : sent[j].id = txs[k].id)
                 => ~\E j \in 1..Len(sent) : sent[j].id = txs[k].id

\* two callers have commands on the wire of one websocket at the same
\* time, both still waiting for their replies
C17_Witness ==
    \E t, u \in Callers :
        /\ t # u
        /\ At(t, "send", "s_await") /\ At(u, "send", "s_await")
        /\ ~Top(t).upd /\ ~Top(u).upd
        /\ \E i, j \in 1..Len(sent) :
              /\ i < j /\ sent[i].ws = sent[j].ws
              /\ sent[i].id = txs[Top(t).txi].id
              /\ sent[j].id = txs[Top(u).txi].id

\* C18: the disconnect() that a listener calls when its websocket reports
\* closed can go on to completion: it never waits for the connection lock
\* behind a holder that itself waits for that lock, which no step ends.
C18_ListenerDisconnectProceeds ==
    \A g \in Gens :
        (/\ lst[g] = "run"
         /\ At(Lid(g), "disconnect", "lockwait")
         /\ close_code[W(g)])
            => ~(connLock # 0 /\ Contains(connWait, connLock))

\* the log entries that dispatching the callbacks cbs to frame n makes
RECURSIVE ExpectedCalls(_, _)
ExpectedCalls(cbs, n) ==
    IF cbs = <<>> THEN <<>>
    ELSE RunsOf(Head(cbs), n, Invocation(Head(cbs)).runs, "sync")
         \o RunsOf(Head(cbs), n, Invocation(Head(cbs)).tasks, "task")
         \o ExpectedCalls(Tail(cbs), n)

Dispatched == SelectSeq(calls, LAMBDA c : c.how # "body")

\* listener g is in the loop of line 534, between two callbacks or in the
\* body of one
Dispatching(g) ==
    At(Lid(g), "listener", "l_dispatch") \/ At(Lid(g), "listener", "l_body")

\* C19: callbacks are called frame by frame in the order the frames
\* arrived, and the calls made for the frame dispatched last are those of
\* the callbacks in the snapshot taken when its dispatch began, in the
\* order of the list, as far as the dispatch has got: all of them once
\* the listener is back at recv, whatever the callbacks did to the
\* registry meanwhile.
C19_SnapshotInOrder ==
    /\ \A i, j \in 1..Len(Dispatched) :
          i < j => Dispatched[i].n <= Dispatched[j].n
    /\ \A g \in Gens :
          lst[g] = "run" /\ websocket = g =>
            LET done == IF Dispatching(g)
                        THEN Top(Lid(g)).k ELSE Len(lastsnap.cbs)
            IN /\ done <= Len(lastsnap.cbs)
               /\ SelectSeq(Dispatched, LAMBDA c : c.n = lastsnap.n)
                    = ExpectedCalls(SubSeq(lastsnap.cbs, 1, done), lastsnap.n)
               /\ Dispatching(g) =>
                    Top(Lid(g)).snap
                      = SubSeq(lastsnap.cbs, done + 1, Len(lastsnap.cbs))

\* the second of two frames has been dispatched to the two callbacks of
\* its snapshot, the first of which changed the list of the event type,
\* and an earlier frame was dispatched before it
C19_Witness ==
    /\ \E g \in Gens : lst[g] = "run" /\ At(Lid(g), "listener", "l_recv")
    /\ lastsnap.n = 2
    /\ Len(lastsnap.cbs) = 2
    /\ Sig[lastsnap.cbs[1]].does # "none"
    /\ Get(handlers, lastsnap.ev) # lastsnap.cbs
    /\ \E i \in 1..Len(Dispatched) : Dispatched[i].n = 1
    /\ Len(SelectSeq(Dispatched, LAMBDA c : c.n = lastsnap.n)) = 2

\* C20: every id in the table maps to a Transaction that carries that id
\* and is pending, so that a Transaction that has been resolved or
\* rejected is not in the table; and an id leaves the table only in a
\* step of a listener that reads a frame carrying that id.
C20_TableHoldsPending ==
    [][/\ \A id \in DOMAIN mapper :
             /\ mapper[id] \in 1..Len(txs)
             /\ txs[mapper[id]].id = id
             /\ txs[mapper[id]].st = "pending"
       /\ \A i \in 1..Len(txs) :
             txs[i].st # "pending" => txs[i].id \notin DOMAIN mapper
       /\ \A id \in (DOMAIN mapper) \ (DOMAIN mapper') :
             \E g \in Gens :
                 /\ Listening(g)
                 /\ inbox[W(g)] # <<>>
                 /\ HasId(Head(inbox[W(g)]))
                 /\ Head(inbox[W(g)]).id = id
                 /\ Len(inbox'[W(g)]) < Len(inbox[W(g)])]_vars

\* one Transaction has been settled and is out of the table while
\* another is in it, pending, its caller waiting
C20_Witness ==
    /\ \E i \in 1..Len(txs) :
          txs[i].st \in {"resolved", "rejected"}
          /\ txs[i].id \notin DOMAIN mapper
    /\ \E t \in Callers :
          /\ At(t, "send", "s_await")
          /\ txs[Top(t).txi].id \in DOMAIN mapper
          /\ mapper[txs[Top(t).txi].id] = Top(t).txi

\* C21: a step of the disconnect() called by a listener whose websocket
\* has closed requests no cancellation of another listener, closes no
\* other websocket, and leaves enabled_domains as it is when the
\* connection has moved on to another websocket.
C21_OldListenerSparesNew ==
    [][\A g \in Gens :
          (/\ Depth(Lid(g)) > 0 /\ Top(Lid(g)).fn = "disconnect"
           /\ running = Lid(g) \/ running' = Lid(g)
           /\ stack'[Lid(g)] # stack[Lid(g)])
             => /\ \A h \in Gens \ {g} : cancelReq'[h] => cancelReq[h]
                /\ \A w \in Gens \ {W(g)} : close_code'[w] => close_code[w]
                /\ websocket # W(g) =>
                      enabled_domains' = enabled_domains]_vars

\* C22: once the listener is back at recv after an event frame, the body
\* of every callback of the snapshot has been run, or given a task, once
\* for the frame: the log has one entry for each callback of the snapshot.
C22_EachCallbackOnce ==
    \A g \in Gens :
        (lst[g] = "run" /\ websocket = g /\ At(Lid(g), "listener", "l_recv"))
           => Len(SelectSeq(Dispatched, LAMBDA c : c.n = lastsnap.n))
                = Len(lastsnap.cbs)

====
